---- MODULE Spec2Model ----
(***************************************************************************)
(* A model of src/main.cpp: custom exceptions raised straight through the  *)
(* platform unwinder (my_throw), probed inside a catch block (my_catch),   *)
(* and released by the cleanup routine my_throw installs in the header.    *)
(*                                                                         *)
(* The unwinder and the libcxxabi entry points the compiler emits for      *)
(* try / catch / throw; (__cxa_begin_catch, __cxa_end_catch,               *)
(* __cxa_rethrow, __cxa_get_globals) are modelled by what the Itanium C++  *)
(* ABI implementation does with an exception whose class is not the C++    *)
(* runtime's own ("foreign"): main.cpp's envelopes are foreign to it.      *)
(* Assertions are compiled in (main.cpp never defines NDEBUG).             *)
(***************************************************************************)
EXTENDS Integers, Sequences, FiniteSets, TLC

\* ------------------------------------------------------------- bounds
\* Exceptions allocated during one run of the process (all threads).
MaxExc == 3
\* try / catch scopes open at once on one thread, above the thread's body.
MaxDepth == 2
\* The same two bounds for the runs in which every thread takes steps.
MaxExcMT == 2
MaxDepthMT == 1

\* ---------------------------------------------------------- constants
\* 64-bit class identifiers, as four 16-bit words (most significant first).
\* main.cpp:28, 0x0123456789ABCDEF.
my_exception_class == <<291, 17767, 35243, 52719>>
\* The C++ runtime's own class, "CLNGC++\0" = 0x434C4E47432B2B00.
CxxClass == <<17228, 20039, 17195, 11008>>
\* Some other subsystem's class (another language runtime on the same unwinder).
OtherClass == <<0, 0, 0, 1>>
\* main.cpp:122, 0x80.
sizeof_libcxx_cxa_exception == 128
\* sizeof(_Unwind_Exception) on the ABI of main.cpp:122 (the "- 1" of line 126).
SizeofUnwindException == 32
\* offsetof(base_exception, header): the header is the first member (line 38).
OffsetofHeader == 0

Threads == {1, 2}
MainThread == CHOOSE t \in Threads : \A u \in Threads : t <= u
\* Payload types thrown with my_throw<T>; main's handler recognises the first.
Types == {"test_exception", "other_exception"}
\* Constructor arguments (the message of test_exception, main.cpp:150, 167).
Args == {"You caught me!", "again"}
NULL == 0
\* An uninitialised local (main.cpp:170-171): never read before it is written.
Uninit == -1

VARIABLES
  globals,   \* per thread: the runtime's __cxa_eh_globals (init, caughtExceptions)
  heap,      \* every exception object allocated so far, by allocation number
  stack,     \* per thread: the open scopes (body, try blocks, catch blocks)
  pc,        \* per thread: where the thread is (client code, my_throw, unwinding)
  inflight,  \* per thread: my_throw's locals / the exception being propagated
  term,      \* the process: "running", or how it ended
  diag       \* whether "Failed to throw" was printed (main.cpp:92)

vars == <<globals, heap, stack, pc, inflight, term, diag>>

\* ------------------------------------------------------------ helpers
Top(s) == s[Len(s)]
Pop(s) == SubSeq(s, 1, Len(s) - 1)
SetTop(s, f) == [s EXCEPT ![Len(s)] = f]

\* Allocations are spaced so that no two objects overlap.
AllocStride == 2 * sizeof_libcxx_cxa_exception
Addr(id) == id * AllocStride
IdAt(a) == a \div AllocStride

\* typeid(T): one type_info object per type, compared by identity.
TypeId(T) == T

NullCleanup == [fn |-> "null", T |-> "none"]

\* ------------------------------------------------- the exception envelope
\* _Unwind_Exception header{} (main.cpp:38): every field zero.
ZeroHeader ==
  [exception_class |-> <<0, 0, 0, 0>>, exception_cleanup |-> NullCleanup,
   private_1 |-> 0, private_2 |-> 0]

\* test_exception(msg) : what(msg) (main.cpp:150); every payload type of the
\* model is built the same way.
Construct(T, a) == [what |-> a]

\* base_exception without line 34: the class identifier stays zero.
base_exception_no_class(ty) == [header |-> ZeroHeader, ty |-> ty]

\* base_exception(ty) (main.cpp:33-35): the header zero-initialised, then its
\* class set; ty recorded.
base_exception(ty) ==
  [header |-> [ZeroHeader EXCEPT !.exception_class = my_exception_class],
   ty |-> ty]

\* wrapped_exception<T>(args) (main.cpp:51-53): the base, then the body.
\* kind, live, handlerCount and nextException belong to the allocator and to
\* the C++ runtime's own exceptions; maker, T, args, cleanups, deletedAs and
\* claimed are history (who threw it, what ran on it), read by no operation.
wrapped_exception(T, a, t) ==
  LET b == base_exception(TypeId(T)) IN
  [kind |-> "wrapped", live |-> TRUE, header |-> b.header, ty |-> b.ty,
   body |-> Construct(T, a), handlerCount |-> 0, nextException |-> NULL,
   maker |-> t, T |-> T, args |-> a, cleanups |-> 0, deletedAs |-> "none",
   claimed |-> FALSE]

\* An exception of the C++ runtime (throw 42;): a __cxa_exception whose last
\* field is the unwind header, class "CLNGC++\0".
native_exception(t) ==
  [kind |-> "native", live |-> TRUE,
   header |-> [ZeroHeader EXCEPT !.exception_class = CxxClass,
                                 !.exception_cleanup = [fn |-> "cxa_cleanup", T |-> "none"]],
   ty |-> "none", body |-> [what |-> ""], handlerCount |-> 0,
   nextException |-> NULL, maker |-> t, T |-> "none", args |-> "",
   cleanups |-> 0, deletedAs |-> "none", claimed |-> FALSE]

\* An exception of another subsystem that shares the unwinder.
other_exception(t) ==
  [kind |-> "other", live |-> TRUE,
   header |-> [ZeroHeader EXCEPT !.exception_class = OtherClass,
                                 !.exception_cleanup = [fn |-> "other_cleanup", T |-> "none"]],
   ty |-> "none", body |-> [what |-> ""], handlerCount |-> 0,
   nextException |-> NULL, maker |-> t, T |-> "none", args |-> "",
   cleanups |-> 0, deletedAs |-> "none", claimed |-> FALSE]

\* Where an object's unwind header lies: first in an envelope, last in a
\* __cxa_exception (main.cpp:113-126).
HeaderAddr(hp, id) ==
  IF hp[id].kind = "native"
  THEN Addr(id) + sizeof_libcxx_cxa_exception - SizeofUnwindException
  ELSE Addr(id) + OffsetofHeader

\* The object whose header lies at address h (0 when there is none).
ObjAtHeader(hp, h) ==
  LET id == IdAt(h) IN
  IF id \in DOMAIN hp /\ HeaderAddr(hp, id) = h THEN id ELSE 0

\* The runtime's "__cxa_exception*" for a header: the header is taken to be
\* the last field of a __cxa_exception, whether or not one was allocated.
CxaFromUnwind(h) == h + SizeofUnwindException - sizeof_libcxx_cxa_exception

\* ------------------------------------------------------ the cleanup routine
\* The cleanup routine without the delete of line 82.
CleanupLeaks(hp, id, T) ==
  [hp EXCEPT ![id].cleanups = IF @ < 2 THEN @ + 1 ELSE @,
             ![id].deletedAs = T]

\* The lambda my_throw<T> installs (main.cpp:72-83): logs "Deleting", then
\* deletes the object at exc as a wrapped_exception<T>.
Cleanup(hp, id, T) ==
  [hp EXCEPT ![id].live = FALSE,
             ![id].cleanups = IF @ < 2 THEN @ + 1 ELSE @,
             ![id].deletedAs = T]

\* _Unwind_DeleteException(exc) (unwind.h, main.cpp:7): calls the header's
\* exception_cleanup when there is one.
UnwindDeleteException(hp, h) ==
  LET id == ObjAtHeader(hp, h)
      c  == hp[id].header.exception_cleanup
  IN  IF id = 0 \/ c.fn = "null" THEN hp ELSE Cleanup(hp, id, c.T)

\* ------------------------------------------- the C++ runtime's catch support
IsNative(hp, id) == hp[id].header.exception_class = CxxClass

\* __cxa_begin_catch(header), emitted at "catch (...)" (main.cpp:168).  It
\* initialises the thread's globals; a native exception is pushed on the
\* caught chain; a foreign one is accepted only on an empty chain, otherwise
\* the runtime calls std::terminate.
BeginCatch(g, hp, h) ==
  LET id == ObjAtHeader(hp, h)
      eh == CxaFromUnwind(h)
      hc == hp[id].handlerCount
  IN  IF IsNative(hp, id)
      THEN [g |-> [init |-> TRUE, caughtExceptions |-> eh],
            hp |-> [hp EXCEPT ![id].handlerCount = IF hc < 0 THEN 1 - hc ELSE hc + 1,
                              ![id].nextException =
                                 IF eh # g.caughtExceptions THEN g.caughtExceptions ELSE @],
            terminate |-> FALSE]
      ELSE IF g.caughtExceptions # NULL
      THEN [g |-> [g EXCEPT !.init = TRUE], hp |-> hp, terminate |-> TRUE]
      ELSE [g |-> [init |-> TRUE, caughtExceptions |-> eh], hp |-> hp,
            terminate |-> FALSE]

\* __cxa_end_catch(), emitted where a catch block is left, normally (the brace
\* of main.cpp:188) or by an exception passing through.  An empty chain means
\* a foreign exception was rethrown: nothing is done.  A foreign exception is
\* deleted through its cleanup routine; a native one is popped and, unless
\* rethrown, freed by the runtime itself.
EndCatch(g, hp) ==
  LET h  == g.caughtExceptions + sizeof_libcxx_cxa_exception - SizeofUnwindException
      id == ObjAtHeader(hp, h)
      hc == hp[id].handlerCount
  IN  IF g.caughtExceptions = NULL \/ id = 0 THEN [g |-> g, hp |-> hp]
      ELSE IF IsNative(hp, id)
      THEN IF hc < 0
           THEN [g |-> IF hc + 1 = 0
                       THEN [g EXCEPT !.caughtExceptions = hp[id].nextException]
                       ELSE g,
                 hp |-> [hp EXCEPT ![id].handlerCount = hc + 1]]
           ELSE [g |-> IF hc - 1 = 0
                       THEN [g EXCEPT !.caughtExceptions = hp[id].nextException]
                       ELSE g,
                 hp |-> [hp EXCEPT ![id].handlerCount = hc - 1,
                                   ![id].live = IF hc - 1 = 0 THEN FALSE ELSE @]]
      ELSE [g |-> [g EXCEPT !.caughtExceptions = NULL],
            hp |-> UnwindDeleteException(hp, h)]

\* __cxa_rethrow(), emitted at "throw;" (main.cpp:175, 186), up to its call
\* of the raise primitive: a native exception is marked rethrown, a foreign
\* one is taken off the chain so that __cxa_end_catch leaves it alone.
Rethrow(g, hp) ==
  LET h  == g.caughtExceptions + sizeof_libcxx_cxa_exception - SizeofUnwindException
      id == ObjAtHeader(hp, h)
  IN  IF g.caughtExceptions = NULL \/ id = 0
      THEN [g |-> g, hp |-> hp, h |-> NULL, terminate |-> TRUE]
      ELSE IF IsNative(hp, id)
      THEN [g |-> g,
            hp |-> [hp EXCEPT ![id].handlerCount = 0 - @],
            h |-> h, terminate |-> FALSE]
      ELSE [g |-> [g EXCEPT !.caughtExceptions = NULL], hp |-> hp, h |-> h,
            terminate |-> FALSE]

\* ------------------------------------------------------------------ my_catch
\* my_catch without line 126: the end of the __cxa_exception is taken for the
\* header.
my_catch_no_adjust(g, hp) ==
  LET caughtExceptions == g.caughtExceptions
      exception_end    == caughtExceptions + sizeof_libcxx_cxa_exception
      header           == exception_end
      id               == ObjAtHeader(hp, header)
      base             == header
  IN  IF ~g.init
      THEN [outcome |-> "assert_globals", ty |-> "uninit", e |-> Uninit]
      ELSE IF caughtExceptions = NULL
      THEN [outcome |-> "assert_caught", ty |-> "uninit", e |-> Uninit]
      ELSE IF id = 0 \/ hp[id].header.exception_class # my_exception_class
      THEN [outcome |-> "false", ty |-> "uninit", e |-> Uninit]
      ELSE [outcome |-> "true", ty |-> hp[id].ty, e |-> base]

\* my_catch without the assertion of line 111.
my_catch_no_caught_assert(g, hp) ==
  LET caughtExceptions == g.caughtExceptions
      exception_end    == caughtExceptions + sizeof_libcxx_cxa_exception
      header           == exception_end - SizeofUnwindException
      id               == ObjAtHeader(hp, header)
      base             == header
  IN  IF ~g.init
      THEN [outcome |-> "assert_globals", ty |-> "uninit", e |-> Uninit]
      ELSE IF id = 0 \/ hp[id].header.exception_class # my_exception_class
      THEN [outcome |-> "false", ty |-> "uninit", e |-> Uninit]
      ELSE [outcome |-> "true", ty |-> hp[id].ty, e |-> base]

\* my_catch without the class test of lines 128-132.
my_catch_unchecked(g, hp) ==
  LET caughtExceptions == g.caughtExceptions
      exception_end    == caughtExceptions + sizeof_libcxx_cxa_exception
      header           == exception_end - SizeofUnwindException
      id               == ObjAtHeader(hp, header)
      base             == header
  IN  IF ~g.init
      THEN [outcome |-> "assert_globals", ty |-> "uninit", e |-> Uninit]
      ELSE IF caughtExceptions = NULL
      THEN [outcome |-> "assert_caught", ty |-> "uninit", e |-> Uninit]
      ELSE [outcome |-> "true", ty |-> hp[id].ty, e |-> base]

\* my_catch that, when the exception caught innermost is not one of ours,
\* follows the runtime's chain to the exception caught by the next handler
\* out.
my_catch_follows_chain(g, hp) ==
  LET caughtExceptions == g.caughtExceptions
      exception_end    == caughtExceptions + sizeof_libcxx_cxa_exception
      header           == exception_end - SizeofUnwindException
      id               == ObjAtHeader(hp, header)
      outer            == IF id = 0 THEN NULL ELSE hp[id].nextException
      outer_header     == outer + sizeof_libcxx_cxa_exception - SizeofUnwindException
      outer_id         == ObjAtHeader(hp, outer_header)
  IN  IF ~g.init
      THEN [outcome |-> "assert_globals", ty |-> "uninit", e |-> Uninit]
      ELSE IF caughtExceptions = NULL
      THEN [outcome |-> "assert_caught", ty |-> "uninit", e |-> Uninit]
      ELSE IF id # 0 /\ hp[id].header.exception_class = my_exception_class
      THEN [outcome |-> "true", ty |-> hp[id].ty, e |-> header]
      ELSE IF outer # NULL /\ outer_id # 0
                /\ hp[outer_id].header.exception_class = my_exception_class
      THEN [outcome |-> "true", ty |-> hp[outer_id].ty, e |-> outer_header]
      ELSE [outcome |-> "false", ty |-> "uninit", e |-> Uninit]

\* my_catch that goes back from caughtExceptions by the distance between the
\* start of a __cxa_exception and its header, instead of forward (line 123).
my_catch_minus_offset(g, hp) ==
  LET caughtExceptions == g.caughtExceptions
      exception_end    == caughtExceptions - sizeof_libcxx_cxa_exception
      header           == exception_end + SizeofUnwindException
      id               == ObjAtHeader(hp, header)
      base             == header
  IN  IF ~g.init
      THEN [outcome |-> "assert_globals", ty |-> "uninit", e |-> Uninit]
      ELSE IF caughtExceptions = NULL
      THEN [outcome |-> "assert_caught", ty |-> "uninit", e |-> Uninit]
      ELSE IF id = 0 \/ hp[id].header.exception_class # my_exception_class
      THEN [outcome |-> "false", ty |-> "uninit", e |-> Uninit]
      ELSE [outcome |-> "true", ty |-> hp[id].ty, e |-> base]

\* my_catch with a cast that lands behind the header (line 135), as it would
\* were the header not the first member of base_exception.
my_catch_past_header(g, hp) ==
  LET caughtExceptions == g.caughtExceptions
      exception_end    == caughtExceptions + sizeof_libcxx_cxa_exception
      header           == exception_end - SizeofUnwindException
      id               == ObjAtHeader(hp, header)
      base             == header + SizeofUnwindException
  IN  IF ~g.init
      THEN [outcome |-> "assert_globals", ty |-> "uninit", e |-> Uninit]
      ELSE IF caughtExceptions = NULL
      THEN [outcome |-> "assert_caught", ty |-> "uninit", e |-> Uninit]
      ELSE IF id = 0 \/ hp[id].header.exception_class # my_exception_class
      THEN [outcome |-> "false", ty |-> "uninit", e |-> Uninit]
      ELSE [outcome |-> "true", ty |-> hp[id].ty, e |-> base]

\* my_catch(&ty, &caught) (main.cpp:99-142) on the thread whose globals are g.
\* outcome: "assert_globals" (line 104), "assert_caught" (line 111), "false"
\* (line 131) or "true" (line 141); ty and e are written only on "true".
my_catch(g, hp) ==
  LET caughtExceptions == g.caughtExceptions
      exception_end    == caughtExceptions + sizeof_libcxx_cxa_exception
      header           == exception_end - SizeofUnwindException
      id               == ObjAtHeader(hp, header)
      base             == header
  IN  IF ~g.init
      THEN [outcome |-> "assert_globals", ty |-> "uninit", e |-> Uninit]
      ELSE IF caughtExceptions = NULL
      THEN [outcome |-> "assert_caught", ty |-> "uninit", e |-> Uninit]
      ELSE IF id = 0 \/ hp[id].header.exception_class # my_exception_class
      THEN [outcome |-> "false", ty |-> "uninit", e |-> Uninit]
      ELSE [outcome |-> "true", ty |-> hp[id].ty, e |-> base]

\* ------------------------------------------------------------------- scopes
\* One open scope of a thread.  kind: "body" (the thread's function body),
\* "try" (a try block whose handler is main's catch (...), main.cpp:165-188),
\* "trytyped" (a try block with a typed C++ handler, which only the C++
\* runtime's own exceptions match), "catch" and "catchtyped" (inside those
\* handlers).  found, ty, e are the locals my_catch's result goes to
\* (main.cpp:170-172); stage is the handler's position; got, via and used
\* are history: the header the handler received, how it came, what it read.
Frame(kind) ==
  [kind |-> kind, stage |-> "code", found |-> "unset", ty |-> "uninit",
   e |-> Uninit, got |-> NULL, via |-> "none", used |-> ""]

CatchFrame(kind, h, via) ==
  [Frame(kind) EXCEPT !.stage = IF kind = "catch" THEN "entered" ELSE "code",
                      !.got = h, !.via = via]

\* No exception is being thrown or propagated by the thread.
NoFlight == [h |-> NULL, T |-> "none", via |-> "none"]

Init ==
  /\ globals = [t \in Threads |-> [init |-> FALSE, caughtExceptions |-> NULL]]
  /\ heap = << >>
  /\ stack = [t \in Threads |-> << Frame("body") >>]
  /\ pc = [t \in Threads |-> "run"]
  /\ inflight = [t \in Threads |-> NoFlight]
  /\ term = "running"
  /\ diag = FALSE

\* ------------------------------------------------------------- client code
CanRun(t) == term = "running" /\ pc[t] = "run"

\* The thread is at a place where client statements stand: a body, a try
\* block, a typed handler, or the matched branch of main's handler
\* (main.cpp:180-182).
InClient(t) == CanRun(t) /\ Top(stack[t]).stage \in {"code", "matched"}

\* Phase 1 of the unwinder: is there a handler for the exception above the
\* thread's body?  catch (...) takes every exception, a typed C++ handler only
\* the C++ runtime's own.
HandlerExists(s, native) ==
  \E i \in 1..Len(s) : s[i].kind = "try" \/ (native /\ s[i].kind = "trytyped")

\* __cxxabiv1::__cxa_get_globals() (main.cpp:163): initialises the calling
\* thread's globals; idempotent.
InitGlobals(t) ==
  /\ InClient(t)
  /\ ~globals[t].init
  /\ globals' = [globals EXCEPT ![t].init = TRUE]
  /\ UNCHANGED <<heap, stack, pc, inflight, term, diag>>

\* "try {" (main.cpp:165): a try block is entered.
TryEnter(t, k) ==
  /\ InClient(t)
  /\ Len(stack[t]) - 1 < MaxDepth
  /\ stack' = [stack EXCEPT ![t] = Append(@, Frame(k))]
  /\ UNCHANGED <<globals, heap, pc, inflight, term, diag>>

\* "} catch" reached with nothing thrown (main.cpp:168): the try block ends.
TryExit(t) ==
  /\ CanRun(t)
  /\ Top(stack[t]).kind \in {"try", "trytyped"}
  /\ stack' = [stack EXCEPT ![t] = Pop(@)]
  /\ UNCHANGED <<globals, heap, pc, inflight, term, diag>>

\* ------------------------------------------------------------------ my_throw
\* my_throw without the assertion of line 64.
MyThrowCallUnchecked(t, T, a) ==
  /\ InClient(t)
  /\ Len(heap) < MaxExc
  /\ heap' = Append(heap, wrapped_exception(T, a, t))
  /\ inflight' = [inflight EXCEPT
                    ![t] = [h |-> Addr(Len(heap) + 1), T |-> T, via |-> "raise"]]
  /\ pc' = [pc EXCEPT ![t] = "set_cleanup"]
  /\ UNCHANGED <<globals, stack, term, diag>>

\* my_throw that goes to the raise of line 87 right after the construction,
\* before the cleanup routine is installed.
MyThrowCallRaisesFirst(t, T, a) ==
  /\ InClient(t)
  /\ Len(heap) < MaxExc
  /\ IF ~globals[t].init
     THEN /\ term' = "assert"
          /\ pc' = [pc EXCEPT ![t] = "assert_my_throw"]
          /\ UNCHANGED <<heap, inflight>>
     ELSE /\ heap' = Append(heap, wrapped_exception(T, a, t))
          /\ inflight' = [inflight EXCEPT
                            ![t] = [h |-> Addr(Len(heap) + 1), T |-> T, via |-> "raise"]]
          /\ pc' = [pc EXCEPT ![t] = "raise"]
          /\ UNCHANGED term
  /\ UNCHANGED <<globals, stack, diag>>

\* my_throw<T>(a), main.cpp:62-68: the assertion on the thread's globals,
\* then the allocation and construction of the envelope.
MyThrowCall(t, T, a) ==
  /\ InClient(t)
  /\ Len(heap) < MaxExc
  /\ IF ~globals[t].init
     THEN /\ term' = "assert"
          /\ pc' = [pc EXCEPT ![t] = "assert_my_throw"]
          /\ UNCHANGED <<heap, inflight>>
     ELSE /\ heap' = Append(heap, wrapped_exception(T, a, t))
          /\ inflight' = [inflight EXCEPT
                            ![t] = [h |-> Addr(Len(heap) + 1), T |-> T, via |-> "raise"]]
          /\ pc' = [pc EXCEPT ![t] = "set_cleanup"]
          /\ UNCHANGED term
  /\ UNCHANGED <<globals, stack, diag>>

\* my_throw whose cleanup routine deletes every envelope as a
\* wrapped_exception<test_exception>, whatever T is (line 80).
MyThrowSetCleanupOneType(t) ==
  /\ term = "running" /\ pc[t] = "set_cleanup"
  /\ LET wrapped == IdAt(inflight[t].h) IN
       heap' = [heap EXCEPT ![wrapped].header.exception_cleanup =
                              [fn |-> "delete_wrapped", T |-> "test_exception"]]
  /\ pc' = [pc EXCEPT ![t] = "raise"]
  /\ UNCHANGED <<globals, stack, inflight, term, diag>>

\* my_throw without lines 72-83: the header keeps its null cleanup pointer.
MyThrowSetCleanupMissing(t) ==
  /\ term = "running" /\ pc[t] = "set_cleanup"
  /\ pc' = [pc EXCEPT ![t] = "raise"]
  /\ UNCHANGED <<globals, heap, stack, inflight, term, diag>>

\* main.cpp:70-83: the cleanup routine is installed in the header.
MyThrowSetCleanup(t) ==
  /\ term = "running" /\ pc[t] = "set_cleanup"
  /\ LET wrapped == IdAt(inflight[t].h) IN
       heap' = [heap EXCEPT ![wrapped].header.exception_cleanup =
                              [fn |-> "delete_wrapped", T |-> inflight[t].T]]
  /\ pc' = [pc EXCEPT ![t] = "raise"]
  /\ UNCHANGED <<globals, stack, inflight, term, diag>>

\* main.cpp:85-87: _Unwind_RaiseException(&wrapped->header).  It returns when
\* no handler is found or the unwinder fails (failed); otherwise the stack is
\* unwound to the handler.
MyThrowRaise(t, failed) ==
  /\ term = "running" /\ pc[t] = "raise"
  /\ inflight' = [inflight EXCEPT ![t].h = @ + OffsetofHeader]
  /\ pc' = [pc EXCEPT ![t] = IF failed \/ ~HandlerExists(stack[t], FALSE)
                             THEN "raise_failed" ELSE "unwind"]
  /\ UNCHANGED <<globals, heap, stack, term, diag>>

\* my_throw without line 93: after the diagnostic it returns to its caller.
MyThrowFailedReturns(t) ==
  /\ term = "running" /\ pc[t] = "raise_failed"
  /\ diag' = TRUE
  /\ pc' = [pc EXCEPT ![t] = "run"]
  /\ inflight' = [inflight EXCEPT ![t] = NoFlight]
  /\ UNCHANGED <<globals, heap, stack, term>>

\* main.cpp:89-93: the raise primitive returned: diagnostic, std::terminate().
MyThrowFailed(t) ==
  /\ term = "running" /\ pc[t] = "raise_failed"
  /\ diag' = TRUE
  /\ term' = "terminate"
  /\ pc' = [pc EXCEPT ![t] = "terminate_my_throw"]
  /\ UNCHANGED <<globals, heap, stack, inflight>>

\* ------------------------------------------------------------- the unwinder
\* Phase 2, one scope at a time.  A handler body the exception leaves runs
\* its landing pad (__cxa_end_catch); a try block whose handler matches is
\* entered through __cxa_begin_catch (main.cpp:168); any other scope is left.
UnwindStep(t) ==
  /\ term = "running" /\ pc[t] = "unwind"
  /\ LET f      == Top(stack[t])
         h      == inflight[t].h
         native == IsNative(heap, ObjAtHeader(heap, h))
     IN  IF f.kind \in {"catch", "catchtyped"}
         THEN LET r == EndCatch(globals[t], heap) IN
              /\ globals' = [globals EXCEPT ![t] = r.g]
              /\ heap' = r.hp
              /\ stack' = [stack EXCEPT ![t] = Pop(@)]
              /\ UNCHANGED <<pc, inflight, term>>
         ELSE IF f.kind = "try" \/ (f.kind = "trytyped" /\ native)
         THEN LET r == BeginCatch(globals[t], heap, h) IN
              /\ globals' = [globals EXCEPT ![t] = r.g]
              /\ heap' = r.hp
              /\ IF r.terminate
                 THEN /\ term' = "terminate"
                      /\ pc' = [pc EXCEPT ![t] = "terminate_begin_catch"]
                      /\ UNCHANGED <<stack, inflight>>
                 ELSE /\ stack' = [stack EXCEPT ![t] =
                           SetTop(@, CatchFrame(IF f.kind = "try" THEN "catch"
                                                ELSE "catchtyped", h, inflight[t].via))]
                      /\ pc' = [pc EXCEPT ![t] = "run"]
                      /\ inflight' = [inflight EXCEPT ![t] = NoFlight]
                      /\ UNCHANGED term
         ELSE /\ stack' = [stack EXCEPT ![t] = Pop(@)]
              /\ UNCHANGED <<globals, heap, pc, inflight, term>>
  /\ UNCHANGED diag

\* ------------------------------------------------------------ main's handler
\* A my_catch that, on success, takes the exception off the runtime's caught
\* chain.
CallMyCatchTakes(t) ==
  /\ CanRun(t)
  /\ LET r == my_catch(globals[t], heap)
         f == Top(stack[t])
     IN  IF r.outcome \in {"assert_globals", "assert_caught"}
         THEN /\ term' = "assert"
              /\ pc' = [pc EXCEPT ![t] = "assert_my_catch"]
              /\ UNCHANGED <<stack, globals>>
         ELSE /\ stack' = [stack EXCEPT ![t] =
                   SetTop(@, IF r.outcome = "true"
                             THEN [f EXCEPT !.found = "true", !.ty = r.ty, !.e = r.e]
                             ELSE [f EXCEPT !.found = "false"])]
              /\ globals' = [globals EXCEPT ![t].caughtExceptions =
                                IF r.outcome = "true" THEN NULL ELSE @]
              /\ UNCHANGED <<term, pc>>
  /\ UNCHANGED <<heap, inflight, diag>>

\* A my_catch that reads one process-wide handle (the main thread's) instead
\* of the calling thread's.
CallMyCatchProcessWide(t) ==
  /\ CanRun(t)
  /\ LET r == my_catch(globals[MainThread], heap)
         f == Top(stack[t])
     IN  IF r.outcome \in {"assert_globals", "assert_caught"}
         THEN /\ term' = "assert"
              /\ pc' = [pc EXCEPT ![t] = "assert_my_catch"]
              /\ UNCHANGED stack
         ELSE /\ stack' = [stack EXCEPT ![t] =
                   SetTop(@, IF r.outcome = "true"
                             THEN [f EXCEPT !.found = "true", !.ty = r.ty, !.e = r.e]
                             ELSE [f EXCEPT !.found = "false"])]
              /\ UNCHANGED <<term, pc>>
  /\ UNCHANGED <<globals, heap, inflight, diag>>

\* A call of my_catch(&ty, &e) (main.cpp:172), from wherever the thread is:
\* an assertion failure aborts the process, "false" writes nothing, "true"
\* writes both locals.
CallMyCatch(t) ==
  /\ CanRun(t)
  /\ LET r == my_catch(globals[t], heap)
         f == Top(stack[t])
     IN  IF r.outcome \in {"assert_globals", "assert_caught"}
         THEN /\ term' = "assert"
              /\ pc' = [pc EXCEPT ![t] = "assert_my_catch"]
              /\ UNCHANGED stack
         ELSE /\ stack' = [stack EXCEPT ![t] =
                   SetTop(@, IF r.outcome = "true"
                             THEN [f EXCEPT !.found = "true", !.ty = r.ty, !.e = r.e]
                             ELSE [f EXCEPT !.found = "false"])]
              /\ UNCHANGED <<term, pc>>
  /\ UNCHANGED <<globals, heap, inflight, diag>>

\* A handler that takes any tag my_catch returned for the one it knows.
RecognizedAny(ty) == ty \in {TypeId(T) : T \in Types}

\* The handler's test of the tag (main.cpp:179).
Recognized(ty) == ty = TypeId("test_exception")

\* Whether main's handler rethrows: my_catch returned false (main.cpp:172-176)
\* or the tag is not one it knows (main.cpp:183-187).
MustRethrow(f) ==
  f.found = "false" \/ (f.found = "true" /\ ~Recognized(f.ty))

\* "throw;" in main's handler, given the heap hp the statements before it
\* leave: __cxa_rethrow, which raises the caught exception again; if the
\* raise returns, the runtime terminates the process.
HandlerRethrowFrom(t, failed, hp) ==
  /\ CanRun(t)
  /\ Top(stack[t]).kind = "catch" /\ Top(stack[t]).stage = "entered"
  /\ MustRethrow(Top(stack[t]))
  /\ LET r      == Rethrow(globals[t], hp)
         native == IsNative(hp, ObjAtHeader(hp, r.h))
     IN  IF r.terminate
         THEN /\ term' = "terminate"
              /\ pc' = [pc EXCEPT ![t] = "terminate_rethrow"]
              /\ UNCHANGED <<globals, heap, stack, inflight>>
         ELSE IF failed \/ ~HandlerExists(stack[t], native)
         THEN LET b == BeginCatch(r.g, r.hp, r.h) IN
              /\ globals' = [globals EXCEPT ![t] = b.g]
              /\ heap' = b.hp
              /\ term' = "terminate"
              /\ pc' = [pc EXCEPT ![t] = "terminate_rethrow"]
              /\ UNCHANGED <<stack, inflight>>
         ELSE /\ globals' = [globals EXCEPT ![t] = r.g]
              /\ heap' = r.hp
              /\ stack' = [stack EXCEPT ![t] =
                             SetTop(@, [Top(@) EXCEPT !.stage = "rethrown"])]
              /\ inflight' = [inflight EXCEPT
                                ![t] = [h |-> r.h, T |-> "none", via |-> "rethrow"]]
              /\ pc' = [pc EXCEPT ![t] = "unwind"]
              /\ UNCHANGED term
  /\ UNCHANGED diag

\* A handler that deletes what it caught before "throw;".
HandlerRethrowDeleting(t, failed) ==
  HandlerRethrowFrom(t, failed,
    UnwindDeleteException(heap,
      globals[t].caughtExceptions + sizeof_libcxx_cxa_exception - SizeofUnwindException))

\* "throw;" (main.cpp:175, 186): the handler rethrows and does nothing else.
HandlerRethrow(t, failed) == HandlerRethrowFrom(t, failed, heap)

\* A matched branch that, having read the payload, deletes the envelope it
\* borrowed.
HandlerMatchDeletes(t) ==
  /\ CanRun(t)
  /\ Top(stack[t]).kind = "catch" /\ Top(stack[t]).stage = "entered"
  /\ Top(stack[t]).found = "true" /\ Recognized(Top(stack[t]).ty)
  /\ LET f       == Top(stack[t])
         wrapped == IdAt(f.e)
     IN  /\ stack' = [stack EXCEPT ![t] =
                SetTop(@, [f EXCEPT !.stage = "matched",
                                    !.used = IF heap[wrapped].live
                                             THEN heap[wrapped].body.what
                                             ELSE "freed"])]
         /\ heap' = [UnwindDeleteException(heap, f.e) EXCEPT ![wrapped].claimed = TRUE]
  /\ UNCHANGED <<globals, pc, inflight, term, diag>>

\* The matched branch (main.cpp:179-182): e is cast to
\* wrapped_exception<test_exception>* and its body.what is read and printed.
HandlerMatch(t) ==
  /\ CanRun(t)
  /\ Top(stack[t]).kind = "catch" /\ Top(stack[t]).stage = "entered"
  /\ Top(stack[t]).found = "true" /\ Recognized(Top(stack[t]).ty)
  /\ LET f       == Top(stack[t])
         wrapped == IdAt(f.e)
     IN  /\ stack' = [stack EXCEPT ![t] =
                SetTop(@, [f EXCEPT !.stage = "matched",
                                    !.used = IF heap[wrapped].live
                                             THEN heap[wrapped].body.what
                                             ELSE "freed"])]
         /\ heap' = [heap EXCEPT ![wrapped].claimed = TRUE]
  /\ UNCHANGED <<globals, pc, inflight, term, diag>>

\* A handler whose unmatched branches lack the "throw;" of lines 175 and 186:
\* it falls through to the closing brace.
HandlerEndFallsThrough(t) ==
  /\ CanRun(t)
  /\ Top(stack[t]).kind = "catch" /\ Top(stack[t]).stage \in {"entered", "matched"}
  /\ Top(stack[t]).found # "unset"
  /\ LET r == EndCatch(globals[t], heap) IN
       /\ globals' = [globals EXCEPT ![t] = r.g]
       /\ heap' = r.hp
  /\ stack' = [stack EXCEPT ![t] = Pop(@)]
  /\ UNCHANGED <<pc, inflight, term, diag>>

\* The closing brace of the handler (main.cpp:188): __cxa_end_catch.
HandlerEnd(t) ==
  /\ CanRun(t)
  /\ Top(stack[t]).kind = "catch" /\ Top(stack[t]).stage = "matched"
  /\ LET r == EndCatch(globals[t], heap) IN
       /\ globals' = [globals EXCEPT ![t] = r.g]
       /\ heap' = r.hp
  /\ stack' = [stack EXCEPT ![t] = Pop(@)]
  /\ UNCHANGED <<pc, inflight, term, diag>>

\* ------------------------------------------------- the other exception users
\* The end of a typed C++ handler: __cxa_end_catch.
TypedHandlerEnd(t) ==
  /\ CanRun(t)
  /\ Top(stack[t]).kind = "catchtyped"
  /\ LET r == EndCatch(globals[t], heap) IN
       /\ globals' = [globals EXCEPT ![t] = r.g]
       /\ heap' = r.hp
  /\ stack' = [stack EXCEPT ![t] = Pop(@)]
  /\ UNCHANGED <<pc, inflight, term, diag>>

\* A C++ throw expression (__cxa_throw): initialises the thread's globals,
\* allocates a __cxa_exception and raises it; with no handler the runtime
\* terminates the process.
NativeThrow(t) ==
  /\ InClient(t)
  /\ Len(heap) < MaxExc
  /\ heap' = Append(heap, native_exception(t))
  /\ globals' = [globals EXCEPT ![t].init = TRUE]
  /\ IF HandlerExists(stack[t], TRUE)
     THEN /\ inflight' = [inflight EXCEPT
               ![t] = [h |-> HeaderAddr(heap', Len(heap')), T |-> "none", via |-> "raise"]]
          /\ pc' = [pc EXCEPT ![t] = "unwind"]
          /\ UNCHANGED term
     ELSE /\ term' = "terminate"
          /\ pc' = [pc EXCEPT ![t] = "terminate_native"]
          /\ UNCHANGED inflight
  /\ UNCHANGED <<stack, diag>>

\* Another subsystem raises an exception of its own class through the same
\* unwinder; with no handler that subsystem ends the process.
OtherThrow(t) ==
  /\ InClient(t)
  /\ Len(heap) < MaxExc
  /\ heap' = Append(heap, other_exception(t))
  /\ IF HandlerExists(stack[t], FALSE)
     THEN /\ inflight' = [inflight EXCEPT
               ![t] = [h |-> HeaderAddr(heap', Len(heap')), T |-> "none", via |-> "raise"]]
          /\ pc' = [pc EXCEPT ![t] = "unwind"]
          /\ UNCHANGED term
     ELSE /\ term' = "terminate"
          /\ pc' = [pc EXCEPT ![t] = "terminate_other"]
          /\ UNCHANGED inflight
  /\ UNCHANGED <<globals, stack, diag>>

\* ------------------------------------------------------------ specification
\* One step of thread t.
Step(t) ==
  \/ InitGlobals(t)
  \/ \E k \in {"try", "trytyped"} : TryEnter(t, k)
  \/ TryExit(t)
  \/ \E T \in Types, a \in Args : MyThrowCall(t, T, a)
  \/ MyThrowSetCleanup(t)
  \/ \E failed \in BOOLEAN : MyThrowRaise(t, failed)
  \/ MyThrowFailed(t)
  \/ UnwindStep(t)
  \/ CallMyCatch(t)
  \/ \E failed \in BOOLEAN : HandlerRethrow(t, failed)
  \/ HandlerMatch(t)
  \/ HandlerEnd(t)
  \/ TypedHandlerEnd(t)
  \/ NativeThrow(t)
  \/ OtherThrow(t)

\* The program as written runs on the main thread alone (main.cpp:153).
Next == Step(MainThread)

Spec == Init /\ [][Next]_vars

\* A thread that can go on does: inside my_throw, while unwinding, and in
\* main's handler up to its decision (probe, then rethrow or match).
Progress(t) ==
  \/ MyThrowSetCleanup(t)
  \/ \E failed \in BOOLEAN : MyThrowRaise(t, failed)
  \/ MyThrowFailed(t)
  \/ UnwindStep(t)
  \/ Top(stack[t]).kind = "catch" /\ Top(stack[t]).stage = "entered" /\ CallMyCatch(t)
  \/ \E failed \in BOOLEAN : HandlerRethrow(t, failed)
  \/ HandlerMatch(t)

SpecLive == Spec /\ WF_vars(Progress(MainThread))

\* The same operations used from every thread of a process.
NextMT == \E t \in Threads : Step(t)

SpecMT == Init /\ [][NextMT]_vars

\* One step of thread t that uses main.cpp's own operations only: my_throw,
\* my_catch and the try / catch (...) / throw; of main.
StepOwn(t) ==
  \/ InitGlobals(t)
  \/ TryEnter(t, "try")
  \/ TryExit(t)
  \/ \E T \in Types, a \in Args : MyThrowCall(t, T, a)
  \/ MyThrowSetCleanup(t)
  \/ \E failed \in BOOLEAN : MyThrowRaise(t, failed)
  \/ MyThrowFailed(t)
  \/ UnwindStep(t)
  \/ CallMyCatch(t)
  \/ \E failed \in BOOLEAN : HandlerRethrow(t, failed)
  \/ HandlerMatch(t)
  \/ HandlerEnd(t)

\* Those operations used concurrently from every thread, any interleaving.
NextOwnMT ==
  \E t \in Threads :
    /\ StepOwn(t)
    /\ Len(heap') <= MaxExcMT
    /\ Len(stack'[t]) - 1 <= MaxDepthMT

SpecOwnMT == Init /\ [][NextOwnMT]_vars

\* ------------------------------------------------ vocabulary of properties
\* The envelopes my_throw has produced.
Envelopes == {id \in DOMAIN heap : heap[id].kind = "wrapped"}

\* The handler scopes open on thread t, innermost last.
Handlers(t) == {i \in 1..Len(stack[t]) : stack[t][i].kind \in {"catch", "catchtyped"}}

\* The object a handler scope received.
Received(f) == ObjAtHeader(heap, f.got)

\* The envelope as my_throw<T>(a) hands it to the raise primitive.
AsRaised(id) ==
  [wrapped_exception(heap[id].T, heap[id].args, heap[id].maker) EXCEPT
     !.header.exception_cleanup = [fn |-> "delete_wrapped", T |-> heap[id].T]]

\* In this step thread t leaves the scope of main's handler otherwise than by
\* rethrowing, after my_catch returned true in it.
ClaimedScopeLeft(t) ==
  /\ Top(stack[t]).kind = "catch"
  /\ Top(stack[t]).found = "true"
  /\ Top(stack[t]).stage # "rethrown"
  /\ Received(Top(stack[t])) \in Envelopes
  /\ Len(stack'[t]) < Len(stack[t])

\* C1: an envelope raised by my_throw whose handler called my_catch, got
\* found=true and left its scope without rethrowing has its cleanup routine
\* invoked exactly once: the step that leaves the scope takes the count from
\* zero to one, and no envelope's count ever exceeds one.
C1_CleanupExactlyOnce ==
  /\ [](\A id \in Envelopes : heap[id].cleanups <= 1)
  /\ [][\A t \in Threads :
          ClaimedScopeLeft(t) =>
            /\ heap[Received(Top(stack[t]))].cleanups = 0
            /\ heap'[Received(Top(stack[t]))].cleanups = 1]_vars

\* An envelope was claimed, every handler has ended, and its cleanup has run
\* once, deleting it.
C1_Witness ==
  \E id \in Envelopes :
    /\ heap[id].claimed /\ heap[id].cleanups = 1 /\ ~heap[id].live
    /\ heap[id].deletedAs = "test_exception"
    /\ term = "running"
    /\ \A t \in Threads : Handlers(t) = {}

\* What a handler may observe of an object: everything but the runtime's own
\* bookkeeping of its native exceptions.
Observable(o) ==
  [header |-> o.header, ty |-> o.ty, body |-> o.body, live |-> o.live,
   cleanups |-> o.cleanups]

\* Thread t is in main's handler and is rethrowing or about to.
Rethrowing(t) ==
  /\ Top(stack[t]).kind = "catch"
  /\ \/ Top(stack[t]).stage = "rethrown"
     \/ Top(stack[t]).stage = "entered" /\ MustRethrow(Top(stack[t]))

\* The object a handler received is as it was raised and has not been cleaned.
AsFirstRaised(id) ==
  /\ heap[id].live /\ heap[id].cleanups = 0
  /\ id \in Envelopes =>
       /\ heap[id].header = AsRaised(id).header
       /\ heap[id].ty = AsRaised(id).ty
       /\ heap[id].body = AsRaised(id).body
  /\ heap[id].kind = "other" => heap[id].header = other_exception(heap[id].maker).header
  /\ heap[id].kind = "native" => heap[id].header = native_exception(heap[id].maker).header

\* C2: a handler that rethrows (my_catch returned false, or the tag was not
\* recognised) leaves the exception untouched and its cleanup uncalled while
\* it does so and while the exception leaves its scope; the handler the
\* rethrown exception reaches finds it as it was first raised (header, class,
\* tag, payload, cleanup routine) and not cleaned; and an envelope's cleanup
\* has run only if a handler claimed it.
C2_RethrowPreserves ==
  /\ [](\A t \in Threads : \A i \in Handlers(t) :
          stack[t][i].via = "rethrow" /\ stack[t][i].stage = "entered"
            => AsFirstRaised(Received(stack[t][i])))
  /\ [](\A id \in Envelopes : heap[id].cleanups > 0 => heap[id].claimed)
  /\ [][\A t \in Threads :
          Rethrowing(t) =>
            Observable(heap'[Received(Top(stack[t]))])
              = Observable(heap[Received(Top(stack[t]))])]_vars

\* An outer handler has probed an envelope that an inner handler rethrew
\* because it did not know the tag.
C2_Witness ==
  \E t \in Threads : \E i \in Handlers(t) :
    /\ stack[t][i].kind = "catch" /\ stack[t][i].via = "rethrow"
    /\ stack[t][i].found = "true" /\ stack[t][i].ty = "other_exception"
    /\ Received(stack[t][i]) \in Envelopes

\* C3: in the first handler an envelope raised by my_throw<T>(a) reaches,
\* my_catch returns true, the tag of T and the address of that envelope, whose
\* payload is T(a); the matched branch reads that payload.
C3_RoundTrip ==
  \A t \in Threads : \A i \in Handlers(t) :
    LET f == stack[t][i]  id == Received(f) IN
    (f.kind = "catch" /\ f.via = "raise" /\ id \in Envelopes /\ f.found # "unset")
      => /\ f.found = "true"
         /\ f.ty = TypeId(heap[id].T)
         /\ f.e = Addr(id)
         /\ heap[IdAt(f.e)].body = Construct(heap[id].T, heap[id].args)
         /\ f.stage = "matched" => f.used = Construct(heap[id].T, heap[id].args).what

\* Scenario A: the first handler matched and read "You caught me!".
C3_Witness ==
  \E t \in Threads : \E i \in Handlers(t) :
    /\ stack[t][i].kind = "catch" /\ stack[t][i].via = "raise"
    /\ stack[t][i].stage = "matched" /\ stack[t][i].used = "You caught me!"
    /\ stack[t][i].ty = TypeId("test_exception")

\* The innermost handler scope open on thread t.
Innermost(t) == stack[t][CHOOSE i \in Handlers(t) : \A j \in Handlers(t) : j <= i]

ForeignClass(id) == heap[id].header.exception_class # my_exception_class

\* C4: while the exception caught innermost has another class identifier,
\* my_catch returns false and writes neither output; a handler that received
\* such an exception holds no tag and no envelope from my_catch; and the
\* cleanup routine of such an exception is never run.
C4_ForeignNeverFound ==
  /\ \A t \in Threads :
       (CanRun(t) /\ Handlers(t) # {} /\ ForeignClass(Received(Innermost(t))))
         => my_catch(globals[t], heap)
              = [outcome |-> "false", ty |-> "uninit", e |-> Uninit]
  /\ \A t \in Threads : \A i \in Handlers(t) :
       ForeignClass(Received(stack[t][i]))
         => /\ stack[t][i].found \in {"unset", "false"}
            /\ stack[t][i].ty = "uninit" /\ stack[t][i].e = Uninit
  /\ \A id \in DOMAIN heap :
       ForeignClass(id) => heap[id].cleanups = 0 /\ heap[id].deletedAs = "none"

\* Scenario B: an outer handler probes another subsystem's exception that an
\* inner handler probed and rethrew.
C4_Witness ==
  \E t \in Threads : \E i \in Handlers(t) :
    /\ stack[t][i].kind = "catch" /\ stack[t][i].via = "rethrow"
    /\ heap[Received(stack[t][i])].kind = "other"
    /\ stack[t][i].found = "false"

\* C5: when the raise primitive returns to my_throw, my_throw prints the
\* diagnostic and terminates the process: it never goes back to its caller,
\* and the cleanup routine of the envelope it allocated is not run.
C5_RaiseFailureIsFatal ==
  /\ [](\A t \in Threads :
          pc[t] = "terminate_my_throw"
            => /\ diag /\ term = "terminate"
               /\ heap[IdAt(inflight[t].h)].cleanups = 0
               /\ heap[IdAt(inflight[t].h)].live)
  /\ [][\A t \in Threads :
          pc[t] \in {"raise_failed", "terminate_my_throw"}
            => /\ pc'[t] \in {pc[t], "terminate_my_throw"}
               /\ stack'[t] = stack[t]
               /\ heap'[IdAt(inflight[t].h)] = heap[IdAt(inflight[t].h)]]_vars

\* Scenario C: the raise failed although a handler was there, and the process
\* has terminated with the diagnostic printed.
C5_Witness ==
  \E t \in Threads :
    /\ pc[t] = "terminate_my_throw" /\ diag /\ term = "terminate"
    /\ HandlerExists(stack[t], FALSE)

\* Thread t is inside my_throw or unwinding, with object id in hand.
InFlight(t, id) ==
  /\ pc[t] \in {"set_cleanup", "raise", "raise_failed", "unwind"}
  /\ IdAt(inflight[t].h) = id

\* Who holds object id: a thread throwing or propagating it, or a handler
\* scope that received it and has not rethrown it.
Holders(id) ==
  {<<t, 0>> : t \in {u \in Threads : InFlight(u, id)}}
  \cup {x \in Threads \X (1..MaxDepth + 1) :
          /\ x[2] \in Handlers(x[1])
          /\ stack[x[1]][x[2]].stage # "rethrown"
          /\ Received(stack[x[1]][x[2]]) = id}

\* In this step thread t leaves main's handler by its closing brace.
HandlerEndsNormally(t) ==
  /\ pc[t] = "run" /\ pc'[t] = "run"
  /\ Top(stack[t]).kind = "catch"
  /\ stack'[t] = Pop(stack[t])

\* C6: no exception raised by my_throw is silently discarded.  While the
\* process runs, an envelope is being thrown or propagated, or is held by a
\* handler, or was claimed by a handler that recognised its tag; main's
\* handler reaches its closing brace only for an envelope it claimed with a
\* recognised tag; and every envelope is in the end claimed or the process
\* has terminated.
C6_NeverDiscarded ==
  /\ [](\A id \in Envelopes :
          \/ term # "running"
          \/ Holders(id) # {}
          \/ heap[id].claimed)
  /\ [][\A t \in Threads :
          HandlerEndsNormally(t) =>
            /\ Top(stack[t]).found = "true" /\ Recognized(Top(stack[t]).ty)
            /\ heap[Received(Top(stack[t]))].claimed]_vars
  /\ \A id \in 1..MaxExc :
       [](id \in Envelopes
            => <>(term # "running" \/ (id \in Envelopes /\ heap[id].claimed)))

\* An envelope with a tag main's handler does not know was rethrown until no
\* handler was left, and the process has terminated.
C6_Witness ==
  \E id \in Envelopes :
    /\ heap[id].T = "other_exception" /\ ~heap[id].claimed /\ heap[id].live
    /\ \E t \in Threads : pc[t] = "terminate_rethrow"

\* The envelopes thread t has allocated.
Made(hp, t) ==
  Cardinality({id \in DOMAIN hp : hp[id].kind = "wrapped" /\ hp[id].maker = t})

\* C7: single ownership.  A call of my_throw that passes its assertion
\* allocates one envelope and the rest of my_throw allocates none; an
\* envelope is deallocated at most once, by its cleanup routine; while the
\* process runs an allocated envelope has exactly one holder (the thread
\* raising it or the handler scope that received it), and a deallocated one
\* has none.
C7_SingleOwnership ==
  /\ [](\A id \in Envelopes :
          /\ heap[id].cleanups <= 1
          /\ heap[id].live <=> heap[id].cleanups = 0
          /\ (heap[id].live /\ term = "running") => Cardinality(Holders(id)) = 1
          /\ ~heap[id].live => Holders(id) = {})
  /\ [][\A t \in Threads :
          /\ (pc[t] = "run" /\ pc'[t] = "set_cleanup")
               => Made(heap', t) = Made(heap, t) + 1
          /\ pc[t] \in {"set_cleanup", "raise", "raise_failed"}
               => Made(heap', t) = Made(heap, t)]_vars

\* One envelope has been deallocated by its cleanup routine and a later one
\* is held by a handler.
C7_Witness ==
  \E a \in Envelopes, b \in Envelopes :
    /\ ~heap[a].live /\ heap[a].cleanups = 1
    /\ heap[b].live /\ \E t \in Threads : \E i \in Handlers(t) : <<t, i>> \in Holders(b)

\* C8: every envelope my_throw has produced carries my_exception_class in
\* its header, and no step changes the class identifier of any header.
C8_ClassIdentifier ==
  /\ [](\A id \in Envelopes : heap[id].header.exception_class = my_exception_class)
  /\ [][\A id \in DOMAIN heap :
          heap'[id].header.exception_class = heap[id].header.exception_class]_vars

\* An envelope that was raised, caught, rethrown and caught again.
C8_Witness ==
  \E t \in Threads : \E i \in Handlers(t) :
    /\ stack[t][i].via = "rethrow" /\ Received(stack[t][i]) \in Envelopes
    /\ heap[Received(stack[t][i])].header.exception_class = my_exception_class

\* C9: my_throw on a thread whose globals are not initialised fails its
\* assertion and does nothing else: the step that fails it changes neither
\* the heap nor the thread's scopes, no such call gets past the assertion,
\* and so every envelope was allocated by a thread with initialised globals.
C9_ThrowNeedsGlobals ==
  /\ [](\A id \in Envelopes : globals[heap[id].maker].init)
  /\ [](\A t \in Threads :
          pc[t] = "assert_my_throw"
            => term = "assert" /\ ~globals[t].init /\ inflight[t] = NoFlight)
  /\ [][\A t \in Threads :
          /\ (pc[t] = "run" /\ pc'[t] = "assert_my_throw")
               => heap' = heap /\ stack' = stack /\ inflight' = inflight
          /\ (pc[t] = "run" /\ ~globals[t].init)
               => pc'[t] \notin {"set_cleanup", "raise", "raise_failed"}]_vars

\* my_throw was called inside a try block before the globals were initialised.
C9_Witness ==
  \E t \in Threads :
    /\ pc[t] = "assert_my_throw" /\ term = "assert"
    /\ Top(stack[t]).kind = "try"

\* The thread's globals do not allow my_catch: they are not initialised, or
\* nothing is caught.
CatchMisuse(t) == ~globals[t].init \/ globals[t].caughtExceptions = NULL

\* C10: with the globals uninitialised or nothing caught (as is the case
\* outside every handler), my_catch fails an assertion: it returns neither
\* true nor false, and the step that fails it writes no local and changes
\* nothing else.
C10_CatchMisuseIsFatal ==
  /\ [](\A t \in Threads :
          (CanRun(t) /\ (CatchMisuse(t) \/ Handlers(t) = {}))
            => /\ my_catch(globals[t], heap).outcome
                    \in {"assert_globals", "assert_caught"}
               /\ my_catch(globals[t], heap).ty = "uninit"
               /\ my_catch(globals[t], heap).e = Uninit)
  /\ [](\A t \in Threads :
          pc[t] = "assert_my_catch" => term = "assert" /\ CatchMisuse(t))
  /\ [][\A t \in Threads :
          /\ (pc[t] = "run" /\ pc'[t] = "assert_my_catch")
               => stack' = stack /\ heap' = heap /\ globals' = globals
          /\ (CanRun(t) /\ CatchMisuse(t) /\ Len(stack'[t]) = Len(stack[t]))
               => /\ Top(stack'[t]).found = Top(stack[t]).found
                  /\ Top(stack'[t]).ty = Top(stack[t]).ty
                  /\ Top(stack'[t]).e = Top(stack[t]).e]_vars

\* my_catch was called after a handler had ended: the globals are
\* initialised and nothing is caught.
C10_Witness ==
  \E t \in Threads :
    /\ pc[t] = "assert_my_catch" /\ globals[t].init
    /\ \E id \in Envelopes : heap[id].cleanups = 1

\* Thread u has object id in hand: it is throwing or propagating it, or one
\* of its handler scopes received it.
OnThread(u, id) ==
  \/ InFlight(u, id)
  \/ \E j \in Handlers(u) : Received(stack[u][j]) = id

\* C11: thread locality.  Whatever the interleaving of the threads, a my_catch
\* that returns true on a thread returns the envelope the innermost handler of
\* that same thread received, an envelope that thread raised and that no other
\* thread has in hand; every result a scope holds is of that kind; a thread
\* whose globals are not initialised fails the assertion of my_catch and of
\* my_throw however many other threads are initialised; and a step changes
\* the globals of one thread only, the one that takes the step.
C11_ThreadLocality ==
  /\ [](\A t \in Threads :
          (CanRun(t) /\ my_catch(globals[t], heap).outcome = "true")
            => /\ Handlers(t) # {}
               /\ my_catch(globals[t], heap).e = Addr(Received(Innermost(t)))
               /\ heap[Received(Innermost(t))].maker = t
               /\ \A u \in Threads \ {t} : ~OnThread(u, Received(Innermost(t))))
  /\ [](\A t \in Threads : \A i \in 1..Len(stack[t]) :
          stack[t][i].found = "true"
            => /\ IdAt(stack[t][i].e) \in Envelopes
               /\ heap[IdAt(stack[t][i].e)].maker = t
               /\ \E j \in Handlers(t) :
                     j <= i /\ Received(stack[t][j]) = IdAt(stack[t][i].e))
  /\ [](\A t \in Threads :
          (CanRun(t) /\ ~globals[t].init)
            => my_catch(globals[t], heap).outcome = "assert_globals")
  /\ [][\A t \in Threads :
          /\ (pc[t] = "run" /\ ~globals[t].init)
               => pc'[t] \notin {"set_cleanup", "raise", "raise_failed"}
          /\ globals'[t] # globals[t]
               => \A u \in Threads \ {t} :
                    /\ globals'[u] = globals[u] /\ stack'[u] = stack[u]
                    /\ pc'[u] = pc[u] /\ inflight'[u] = inflight[u]]_vars

\* Two threads are in their handlers at once, each with its own envelope
\* reported by my_catch.
C11_Witness ==
  \E t \in Threads, u \in Threads :
    /\ t # u
    /\ Handlers(t) # {} /\ Handlers(u) # {}
    /\ Innermost(t).found = "true" /\ Innermost(u).found = "true"
    /\ Innermost(t).e # Innermost(u).e
    /\ heap[IdAt(Innermost(t).e)].live /\ heap[IdAt(Innermost(u).e)].live

\* C12: the address a successful my_catch returns is the address my_throw
\* allocated and passed to the raise primitive, and it is the address of the
\* envelope's header: a scope that holds a true result holds the address of
\* an envelope's allocation, equal to its header's address and to the header
\* pointer its handler received from the unwinder; my_throw passes the
\* allocation's address to the raise primitive; and the step in which an
\* envelope's cleanup routine runs is taken by a handler that received that
\* address and, if it probed, got the same address from my_catch.
C12_BorrowedAddress ==
  /\ [](\A t \in Threads : \A i \in 1..Len(stack[t]) :
          stack[t][i].found = "true"
            => LET id == IdAt(stack[t][i].e) IN
               /\ id \in Envelopes
               /\ stack[t][i].e = Addr(id)
               /\ stack[t][i].e = HeaderAddr(heap, id)
               /\ \E j \in Handlers(t) : j <= i /\ stack[t][j].got = stack[t][i].e)
  /\ [](\A t \in Threads :
          (pc[t] \in {"raise_failed", "unwind"} /\ inflight[t].via = "raise"
             /\ inflight[t].T # "none")
            => /\ inflight[t].h = Addr(IdAt(inflight[t].h))
               /\ inflight[t].h = HeaderAddr(heap, IdAt(inflight[t].h))
               /\ IdAt(inflight[t].h) \in Envelopes)
  /\ [][\A id \in Envelopes :
          heap'[id].cleanups # heap[id].cleanups
            => \E t \in Threads :
                 /\ Top(stack[t]).kind = "catch"
                 /\ Top(stack[t]).got = Addr(id)
                 /\ Top(stack[t]).found = "true" /\ Top(stack[t]).e = Addr(id)
                 /\ heap'[id].deletedAs = heap[id].T]_vars

\* The handler of a second envelope holds, from my_catch, the address the
\* unwinder handed it, after the first envelope was deleted through its
\* header pointer.
C12_Witness ==
  \E t \in Threads : \E i \in Handlers(t) : \E a \in Envelopes :
    /\ stack[t][i].found = "true" /\ stack[t][i].e = stack[t][i].got
    /\ stack[t][i].e = Addr(IdAt(stack[t][i].e))
    /\ IdAt(stack[t][i].e) # a
    /\ heap[a].cleanups = 1 /\ ~heap[a].live

\* The distance from the currently-caught pointer to the header, as lines
\* 122-126 fix it: forward by the size of a __cxa_exception, back by the size
\* of the header.
EnvelopeOffset == sizeof_libcxx_cxa_exception - SizeofUnwindException

\* Thread t is in a handler that received an envelope and has it caught.
EnvelopeCaught(t) ==
  /\ CanRun(t) /\ Handlers(t) # {}
  /\ Received(Innermost(t)) \in Envelopes
  /\ globals[t].init /\ globals[t].caughtExceptions # NULL

\* C13 as stated: the address my_catch returns is the currently-caught
\* pointer minus some byte count K, K >= 0.
C13_MinusFixedOffset ==
  \E K \in 0..AllocStride :
    \A t \in Threads :
      EnvelopeCaught(t)
        => my_catch(globals[t], heap).e = globals[t].caughtExceptions - K

\* C13, amended: the address my_catch returns is the currently-caught pointer
\* plus one fixed byte offset (the configured size of the runtime's exception
\* record less the size of the unwind header), the same for every payload
\* type, every constructor argument and every exception; the address does not
\* depend on what the exception holds.
C13_PlusFixedOffset ==
  \A t \in Threads :
    EnvelopeCaught(t)
      => /\ my_catch(globals[t], heap).outcome = "true"
         /\ my_catch(globals[t], heap).e
              = globals[t].caughtExceptions + EnvelopeOffset
         /\ my_catch(globals[t], heap).e = Addr(Received(Innermost(t)))
         /\ \A T \in Types, a \in Args :
              my_catch(globals[t],
                       [heap EXCEPT ![Received(Innermost(t))].ty = TypeId(T),
                                    ![Received(Innermost(t))].body = Construct(T, a)]).e
                = my_catch(globals[t], heap).e

\* After an envelope of one payload type was caught and deleted, an envelope
\* of the other type and with another message is caught, at the same offset
\* from the currently-caught pointer.
C13_Witness ==
  \E t \in Threads : \E a \in Envelopes :
    /\ EnvelopeCaught(t)
    /\ my_catch(globals[t], heap).e = globals[t].caughtExceptions + EnvelopeOffset
    /\ heap[Received(Innermost(t))].T = "other_exception"
    /\ heap[Received(Innermost(t))].args = "again"
    /\ heap[a].T = "test_exception" /\ heap[a].args = "You caught me!"
    /\ heap[a].cleanups = 1

\* Thread t is in main's handler, which holds from my_catch a tag that is
\* not the tag of test_exception.
UnrecognizedTag(t) ==
  /\ pc[t] = "run"
  /\ Top(stack[t]).kind = "catch"
  /\ Top(stack[t]).found = "true"
  /\ Top(stack[t]).ty # TypeId("test_exception")

\* C14: two envelopes carry equal tags exactly when their payload types are
\* the same; main's handler is in its matched branch only with a true result
\* whose tag is the tag of test_exception, the type of the envelope it then
\* reads, and only envelopes of that type are ever claimed; a handler that
\* holds any other tag reads nothing and claims nothing, and its next step
\* leaves the envelope as it is and stays in the scope, probing again or
\* rethrowing.
C14_TagDiscrimination ==
  /\ [](\A a \in Envelopes, b \in Envelopes :
          heap[a].ty = heap[b].ty <=> heap[a].T = heap[b].T)
  /\ [](\A id \in Envelopes : heap[id].claimed => heap[id].T = "test_exception")
  /\ [](\A t \in Threads : \A i \in Handlers(t) :
          LET f == stack[t][i] IN
          /\ f.stage = "matched"
               => /\ f.found = "true" /\ f.ty = TypeId("test_exception")
                  /\ heap[IdAt(f.e)].T = "test_exception"
                  /\ f.used = heap[IdAt(f.e)].args
          /\ (f.found = "true" /\ f.ty # TypeId("test_exception"))
               => /\ f.stage \in {"entered", "rethrown"} /\ f.used = ""
                  /\ ~heap[IdAt(f.e)].claimed)
  /\ [][\A t \in Threads :
          UnrecognizedTag(t)
            => /\ Len(stack'[t]) = Len(stack[t])
               /\ Top(stack'[t]).stage \in {"entered", "rethrown"}
               /\ Top(stack'[t]).used = ""
               /\ pc'[t] \in {"run", "unwind", "terminate_rethrow"}
               /\ heap'[IdAt(Top(stack[t]).e)] = heap[IdAt(Top(stack[t]).e)]]_vars

\* After an envelope of test_exception was claimed, main's handler has found
\* an envelope of the other type and is rethrowing it, unread.
C14_Witness ==
  \E t \in Threads : \E a \in Envelopes :
    /\ pc[t] = "unwind"
    /\ Top(stack[t]).kind = "catch" /\ Top(stack[t]).stage = "rethrown"
    /\ Top(stack[t]).found = "true" /\ Top(stack[t]).ty = TypeId("other_exception")
    /\ Top(stack[t]).used = ""
    /\ heap[a].claimed /\ heap[a].T = "test_exception"

\* Envelope id is complete: class identifier and cleanup routine in a header
\* otherwise zero, the tag of its type, the payload built from its arguments.
FullyConstructed(hp, id) ==
  /\ hp[id].live
  /\ hp[id].header =
       [exception_class |-> my_exception_class,
        exception_cleanup |-> [fn |-> "delete_wrapped", T |-> hp[id].T],
        private_1 |-> 0, private_2 |-> 0]
  /\ hp[id].ty = TypeId(hp[id].T)
  /\ hp[id].body = Construct(hp[id].T, hp[id].args)

\* my_throw on thread t has reached or passed its call of the raise primitive.
MyThrowAtRaise(p, fl, t) ==
  /\ p[t] \in {"raise", "raise_failed", "unwind", "terminate_my_throw"}
  /\ fl[t].via = "raise" /\ fl[t].T # "none"

\* C15: when my_throw calls the raise primitive, and from then on while the
\* envelope is propagated and while a handler holds it, the envelope is
\* complete; my_throw's steps come in order: the allocating step leaves a
\* constructed envelope with class identifier, tag and payload and a null
\* cleanup pointer, the next step installs the cleanup routine and changes
\* nothing else, and the raise is called only after that and changes no
\* envelope.
C15_FullyConstructedAtRaise ==
  /\ [](\A t \in Threads :
          MyThrowAtRaise(pc, inflight, t)
            => /\ IdAt(inflight[t].h) \in Envelopes
               /\ FullyConstructed(heap, IdAt(inflight[t].h)))
  /\ [](\A t \in Threads : \A i \in Handlers(t) :
          (Received(stack[t][i]) \in Envelopes /\ heap[Received(stack[t][i])].live)
            => FullyConstructed(heap, Received(stack[t][i])))
  /\ [][\A t \in Threads :
          /\ (pc[t] = "run" /\ pc'[t] = "set_cleanup")
               => /\ Len(heap') = Len(heap) + 1
                  /\ heap'[Len(heap')] =
                       [wrapped_exception(inflight'[t].T, heap'[Len(heap')].args, t)
                          EXCEPT !.header.exception_class = my_exception_class]
                  /\ heap'[Len(heap')].header.exception_cleanup = NullCleanup
                  /\ heap'[Len(heap')].ty = TypeId(inflight'[t].T)
                  /\ inflight'[t].h = Addr(Len(heap'))
          /\ pc[t] = "set_cleanup"
               => /\ pc'[t] \in {"set_cleanup", "raise"}
                  /\ pc'[t] = "raise"
                       => heap' = [heap EXCEPT
                                     ![IdAt(inflight[t].h)].header.exception_cleanup =
                                        [fn |-> "delete_wrapped", T |-> inflight[t].T]]
          /\ (pc[t] = "raise" /\ pc'[t] # "raise")
               => /\ pc'[t] \in {"raise_failed", "unwind"}
                  /\ heap' = heap
                  /\ FullyConstructed(heap, IdAt(inflight[t].h))
          /\ (MyThrowAtRaise(pc', inflight', t) /\ ~MyThrowAtRaise(pc, inflight, t))
               => pc[t] = "set_cleanup"]_vars

\* my_throw<other_exception>("again") stands at its call of the raise
\* primitive inside two nested try blocks, its envelope complete.
C15_Witness ==
  \E t \in Threads :
    /\ pc[t] = "raise" /\ inflight[t].T = "other_exception"
    /\ FullyConstructed(heap, IdAt(inflight[t].h))
    /\ heap[IdAt(inflight[t].h)].args = "again"
    /\ Len(stack[t]) = 3 /\ Top(stack[t]).kind = "try"

\* Handler scope i of thread t holds an envelope: it received one and has
\* not rethrown it.
HoldsEnvelope(t, i) ==
  /\ i \in Handlers(t)
  /\ stack[t][i].kind = "catch" /\ stack[t][i].stage \in {"entered", "matched"}
  /\ Received(stack[t][i]) \in Envelopes

\* C16: while a handler holds an envelope, probing it or in its matched
\* branch, the envelope is allocated and its cleanup routine has not run;
\* what the matched branch read is the payload, never freed memory; the step
\* that reads it finds the envelope allocated; and the step in which the
\* cleanup routine runs is the step in which the handler that claimed the
\* envelope leaves its scope, so that no open handler scope holds it after.
C16_CleanupAfterHandler ==
  /\ [](\A t \in Threads : \A i \in Handlers(t) :
          HoldsEnvelope(t, i)
            => /\ heap[Received(stack[t][i])].live
               /\ heap[Received(stack[t][i])].cleanups = 0
               /\ stack[t][i].stage = "matched"
                    => /\ stack[t][i].used # "freed"
                       /\ stack[t][i].used = heap[Received(stack[t][i])].body.what
                       /\ heap[Received(stack[t][i])].claimed)
  /\ [][\A t \in Threads :
          (Top(stack[t]).kind = "catch" /\ Top(stack[t]).stage = "entered"
             /\ Len(stack'[t]) = Len(stack[t]) /\ Top(stack'[t]).stage = "matched")
            => /\ heap[IdAt(Top(stack[t]).e)].live
               /\ heap'[IdAt(Top(stack[t]).e)].live
               /\ heap'[IdAt(Top(stack[t]).e)].cleanups = 0]_vars
  /\ [][\A id \in Envelopes :
          heap'[id].cleanups # heap[id].cleanups
            => /\ heap[id].claimed
               /\ \E t \in Threads :
                    /\ Top(stack[t]).kind = "catch" /\ Top(stack[t]).stage = "matched"
                    /\ Received(Top(stack[t])) = id
                    /\ Top(stack[t]).used = heap[id].body.what
                    /\ stack'[t] = Pop(stack[t])
               /\ \A u \in Threads : \A j \in 1..Len(stack'[u]) :
                    ~(stack'[u][j].kind = "catch" /\ stack'[u][j].got = Addr(id)
                        /\ stack'[u][j].stage \in {"entered", "matched"})]_vars

\* A handler in its matched branch has read "again" from an envelope still
\* allocated, after an earlier envelope was read and then deleted when its
\* handler ended.
C16_Witness ==
  \E t \in Threads : \E i \in Handlers(t) : \E a \in Envelopes :
    /\ HoldsEnvelope(t, i) /\ stack[t][i].stage = "matched"
    /\ stack[t][i].used = "again"
    /\ heap[Received(stack[t][i])].live
    /\ heap[a].claimed /\ heap[a].cleanups = 1 /\ ~heap[a].live

\* In this step thread t leaves its innermost handler scope and is then, in
\* client code, inside the handler scope that enclosed it.
InnerHandlerEnds(t) ==
  /\ pc[t] = "run" /\ pc'[t] = "run" /\ term' = "running"
  /\ Top(stack[t]).kind \in {"catch", "catchtyped"}
  /\ stack'[t] = Pop(stack[t])
  /\ \E j \in 1..Len(stack'[t]) : stack'[t][j].kind \in {"catch", "catchtyped"}

\* C17: whatever handlers are open on a thread, my_catch answers for the
\* innermost one: it returns true exactly when the exception that handler
\* received has this family's class identifier, then with the tag and the
\* address of that very envelope, and false otherwise, whatever the handlers
\* further out hold; and when the innermost handler ends, my_catch answers
\* for the handler that enclosed it.
C17_InnermostHandler ==
  /\ [](\A t \in Threads :
          (CanRun(t) /\ Handlers(t) # {})
            => LET id == Received(Innermost(t))
                   r  == my_catch(globals[t], heap)
               IN  /\ r.outcome \in {"true", "false"}
                   /\ r.outcome = "true"
                        <=> heap[id].header.exception_class = my_exception_class
                   /\ r.outcome = "true"
                        => r.e = Addr(id) /\ r.ty = TypeId(heap[id].T))
  /\ [][\A t \in Threads :
          InnerHandlerEnds(t)
            => LET outer == stack'[t][CHOOSE i \in 1..Len(stack'[t]) :
                               /\ stack'[t][i].kind \in {"catch", "catchtyped"}
                               /\ \A j \in i + 1..Len(stack'[t]) :
                                    stack'[t][j].kind \notin {"catch", "catchtyped"}]
                   id    == ObjAtHeader(heap', outer.got)
                   r     == my_catch(globals'[t], heap')
               IN  /\ r.outcome = "true" <=> id \in Envelopes
                   /\ r.outcome = "true" => r.e = Addr(id)
                   /\ r.outcome = "false" => r.e = Uninit]_vars

\* A handler that claimed an envelope is open, and inside it a handler for an
\* exception of the C++ runtime has probed and got false.
C17_Witness ==
  \E t \in Threads : \E i \in Handlers(t), j \in Handlers(t) :
    /\ i < j /\ CanRun(t)
    /\ Received(stack[t][i]) \in Envelopes /\ stack[t][i].found = "true"
    /\ heap[Received(stack[t][i])].live
    /\ heap[Received(stack[t][j])].kind = "native" /\ stack[t][j].found = "false"
    /\ my_catch(globals[t], heap).outcome = "false"

\* The inner handler has ended, its exception is freed, and my_catch answers
\* for the outer handler's envelope again.
C17_OuterAgain ==
  \E t \in Threads : \E n \in DOMAIN heap :
    /\ CanRun(t) /\ Top(stack[t]).kind = "catch" /\ Top(stack[t]).stage = "matched"
    /\ heap[n].kind = "native" /\ ~heap[n].live
    /\ n > Received(Top(stack[t]))
    /\ my_catch(globals[t], heap).outcome = "true"
    /\ my_catch(globals[t], heap).e = Top(stack[t]).got

\* The result the scope f holds from my_catch, as my_catch returns it.
Held(f) ==
  [outcome |-> f.found, ty |-> f.ty, e |-> f.e]

\* Thread t is in main's handler, which has called my_catch and has not
\* rethrown.
Probed(t) ==
  /\ CanRun(t)
  /\ Top(stack[t]).kind = "catch" /\ Top(stack[t]).stage \in {"entered", "matched"}
  /\ Top(stack[t]).found # "unset"

\* C18: my_catch is a pure probe.  A call of it changes no exception object,
\* nothing of the runtime's bookkeeping and nothing of what is allocated or
\* in flight, and at most the caller's two locals; in a handler that has
\* called it and has not rethrown, calling it again returns what the handler
\* already holds (found flag, tag, address), so the repeated call changes
\* nothing at all.
C18_PureProbe ==
  /\ [](\A t \in Threads :
          Probed(t) => my_catch(globals[t], heap) = Held(Top(stack[t])))
  /\ [][\A t \in Threads :
          CallMyCatch(t)
            => /\ heap' = heap /\ globals' = globals /\ inflight' = inflight
               /\ Len(stack'[t]) = Len(stack[t])
               /\ \A i \in 1..Len(stack[t]) - 1 : stack'[t][i] = stack[t][i]
               /\ Top(stack'[t]) = [Top(stack[t]) EXCEPT !.found = Top(stack'[t]).found,
                                                          !.ty = Top(stack'[t]).ty,
                                                          !.e = Top(stack'[t]).e]
               /\ Probed(t) => stack' = stack /\ pc' = pc /\ term' = term]_vars
  /\ [][\A t \in Threads :
          (Probed(t) /\ Probed(t)')
            => Held(Top(stack'[t])) = Held(Top(stack[t]))]_vars

\* main's handler has called my_catch on an envelope of test_exception and
\* not yet decided: the envelope is allocated and still at the head of the
\* runtime's caught chain.
C18_Witness ==
  \E t \in Threads :
    /\ Probed(t) /\ Top(stack[t]).stage = "entered"
    /\ Top(stack[t]).found = "true" /\ Top(stack[t]).ty = TypeId("test_exception")
    /\ heap[IdAt(Top(stack[t]).e)].live
    /\ heap[IdAt(Top(stack[t]).e)].cleanups = 0
    /\ globals[t].caughtExceptions = CxaFromUnwind(Top(stack[t]).got)

\* Envelope id has left my_throw's installation of the cleanup routine.
Raised(id) ==
  \A t \in Threads : ~(pc[t] = "set_cleanup" /\ IdAt(inflight[t].h) = id)

\* C19: the cleanup routine in the header of an envelope raised by
\* my_throw<T> is the one that deletes a wrapped_exception<T>, T being the
\* type whose tag the envelope records; running it on the envelope's header
\* would delete the envelope as that type, whether or not main's handler
\* knows the tag; and an envelope that was deleted was deleted as the type of
\* its tag.
C19_CleanupTypeMatchesTag ==
  \A id \in Envelopes :
    /\ Raised(id)
         => /\ heap[id].header.exception_cleanup.fn = "delete_wrapped"
            /\ heap[id].header.exception_cleanup.T = heap[id].T
            /\ TypeId(heap[id].header.exception_cleanup.T) = heap[id].ty
            /\ UnwindDeleteException(heap, HeaderAddr(heap, id))[id].deletedAs
                 = heap[id].T
    /\ heap[id].deletedAs \in {"none", heap[id].T}
    /\ heap[id].cleanups > 0
         => /\ heap[id].deletedAs = heap[id].T
            /\ TypeId(heap[id].deletedAs) = heap[id].ty

\* One envelope was deleted as a wrapped_exception<test_exception>, and a
\* handler has found an envelope whose tag it does not know and whose cleanup
\* routine is the one for other_exception.
C19_Witness ==
  \E a \in Envelopes, b \in Envelopes :
    /\ heap[a].cleanups = 1 /\ heap[a].deletedAs = "test_exception"
    /\ heap[b].T = "other_exception" /\ heap[b].live
    /\ heap[b].header.exception_cleanup = [fn |-> "delete_wrapped", T |-> "other_exception"]
    /\ \E t \in Threads :
         /\ Top(stack[t]).kind = "catch" /\ Received(Top(stack[t])) = b
         /\ Top(stack[t]).found = "true" /\ ~Recognized(Top(stack[t]).ty)

====
